---- MODULE Spec2Model ----
(***************************************************************************)
(* Model of the DatsPulse client of Kairat/datspulse_client.py             *)
(* (AntProtocolClient and main) and of the GUI turn loop of Kairat/ants.py *)
(* (GameUI.initialize_game, GameUI.refresh_loop).                          *)
(* HexUtils and the playback controls of Kairat/visualizer are modelled    *)
(* in their own specifications.                                            *)
(*                                                                         *)
(* Python values are modelled as follows: a dict is a record (an absent    *)
(* key is an absent field), a list is a sequence, the (q, r) tuples of     *)
(* visible_tiles are pairs <<q, r>>, None is the record None.  Time is     *)
(* counted in ticks.                                                       *)
(***************************************************************************)
EXTENDS Integers, Sequences, FiniteSets, TLC

VARIABLES
    \* AntProtocolClient fields (datspulse_client.py:15-25)
    current_state, ants, enemies, food, home, map_tiles, visible_tiles,
    last_request_time,
    \* the clock read by time.time()
    now,
    \* control: which program runs and where it stands
    prog, pc,
    \* the list make_decisions returned last, and what it chose for each unit
    moves, decisions,
    \* find_path call under study: its arguments and its return value
    fp, path,
    \* HexUtils area call under study: its arguments and the lists returned
    hx,
    \* ControlPanel and AntVisualizer playback fields, and the number of
    \* play_next_frame callbacks root.after has queued and not yet run
    panel, pending,
    \* the credential the program was started with ("" when it is not set)
    api_key,
    \* what has happened so far: the last two outbound requests, the outcome
    \* of the last call, whether register and get_arena were called and how
    \* they ended, the events of the current turn, the cache as the last
    \* get_arena that returned normally left it, the cache make_decisions
    \* last ran on and the batch last given to send_moves
    hist

clientVars == <<current_state, ants, enemies, food, home, map_tiles, visible_tiles>>
studyVars == <<fp, path, hx, panel, pending>>
vars == <<current_state, ants, enemies, food, home, map_tiles, visible_tiles,
          last_request_time, now, prog, pc, moves, decisions, fp, path,
          hx, panel, pending, api_key, hist>>

(***************************************************************************)
(* Python values                                                           *)
(***************************************************************************)
None == [None |-> TRUE]
EmptyDict == [k \in {} |-> 0]
Has(d, key) == key \in DOMAIN d
Get(d, key, default) == IF key \in DOMAIN d THEN d[key] ELSE default
Abs(x) == IF x < 0 THEN -x ELSE x
Max2(a, b) == IF a > b THEN a ELSE b
Min2(a, b) == IF a < b THEN a ELSE b
Hex(q, r) == [q |-> q, r |-> r]

(***************************************************************************)
(* Bounds of the model                                                     *)
(***************************************************************************)
\* find_path is studied on the strip 0..MaxQ x 0..MaxR of known tiles
MaxQ == 2
MaxR == 20
\* the clock stops at MaxTime; a sleep or a request may take up to MaxLag
\* ticks more than its nominal time
MaxTime == 14
MaxLag == 1
\* the clock of a free sequence of client calls (SpecClient) stops earlier
MaxApiTime == 7

(***************************************************************************)
(* Hex geometry                                                            *)
(***************************************************************************)
hex_distance(q1, r1, q2, r2) ==
    (Abs(q1 - q2) + Abs(q1 + r1 - q2 - r2) + Abs(r1 - r2)) \div 2

get_neighbor_hexes(q, r) ==
    << Hex(q + 1, r), Hex(q - 1, r), Hex(q, r + 1),
       Hex(q, r - 1), Hex(q + 1, r - 1), Hex(q - 1, r + 1) >>

(***************************************************************************)
(* Lookups                                                                 *)
(***************************************************************************)
\* get_tile: the first tile of map_tiles at (q, r), None when there is none
get_tile(q, r) ==
    LET hits == SelectSeq(map_tiles, LAMBDA t: t.q = q /\ t.r = r)
    IN IF hits = <<>> THEN None ELSE Head(hits)

(***************************************************************************)
(* find_path: the greedy walker                                            *)
(***************************************************************************)
\* the step ceiling of "if len(path) > 20: break"
StepCeiling == 20

\* a step that closes in on both axes at once
NextStepBothAxes(cq, cr, tq, tr) ==
    LET dq == tq - cq
        dr == tr - cr
    IN Hex(cq + (IF dq > 0 THEN 1 ELSE IF dq < 0 THEN -1 ELSE 0),
           cr + (IF dr > 0 THEN 1 ELSE IF dr < 0 THEN -1 ELSE 0))

\* a step that compares the deltas without their absolute values
NextStepNoAbs(cq, cr, tq, tr) ==
    LET dq == tq - cq
        dr == tr - cr
    IN IF dq > dr
       THEN Hex(cq + (IF dq > 0 THEN 1 ELSE -1), cr)
       ELSE Hex(cq, cr + (IF dr > 0 THEN 1 ELSE -1))

\* a step whose ties go to the q axis
NextStepTiesToQ(cq, cr, tq, tr) ==
    LET dq == tq - cq
        dr == tr - cr
    IN IF Abs(dq) >= Abs(dr)
       THEN Hex(cq + (IF dq > 0 THEN 1 ELSE -1), cr)
       ELSE Hex(cq, cr + (IF dr > 0 THEN 1 ELSE -1))

\* the candidate step from (cq, cr) toward (tq, tr) (lines 174-183)
NextStep(cq, cr, tq, tr) ==
    LET dq == tq - cq
        dr == tr - cr
    IN IF Abs(dq) > Abs(dr)
       THEN Hex(cq + (IF dq > 0 THEN 1 ELSE -1), cr)
       ELSE Hex(cq, cr + (IF dr > 0 THEN 1 ELSE -1))

\* a tile check that forgets the stones
TileMissing(q, r) == get_tile(q, r) = None

\* "not tile or tile['type'] == 5" (lines 186-188)
TileRejected(q, r) ==
    LET tile == get_tile(q, r)
    IN tile = None \/ tile.type = 5

\* a scan that stops at any unit, friendly of any type or enemy
BlockingAnyUnit(q, r, ant_type) ==
    \/ \E i \in 1..Len(ants) : ants[i].q = q /\ ants[i].r = r
    \/ \E i \in 1..Len(enemies) : enemies[i].q = q /\ enemies[i].r = r

\* the blocking_ant scan (lines 191-198)
BlockingAnt(q, r, ant_type) ==
    \E i \in 1..Len(ants) :
        ants[i].q = q /\ ants[i].r = r /\ Get(ants[i], "type", -1) = ant_type

\* a walker that forgets the units on the way
StepRejectedTilesOnly(q, r, ant_type) == TileRejected(q, r)

StepRejected(q, r, ant_type) ==
    TileRejected(q, r) \/ BlockingAnt(q, r, ant_type)

\* whether the loop stops after appending: "if len(path) > 20: break"
CeilingReached(p) == Len(p) > StepCeiling

RECURSIVE FindPathLoop(_, _, _, _, _, _)
FindPathLoop(cq, cr, tq, tr, ant_type, p) ==
    IF cq = tq /\ cr = tr
    THEN p
    ELSE LET nxt == NextStep(cq, cr, tq, tr)
         IN IF StepRejected(nxt.q, nxt.r, ant_type)
            THEN p
            ELSE LET p2 == Append(p, nxt)
                 IN IF CeilingReached(p2)
                    THEN p2
                    ELSE FindPathLoop(nxt.q, nxt.r, tq, tr, ant_type, p2)

\* a walker whose path begins with the hex it starts from
FindPathFromStart(start_q, start_r, target_q, target_r, ant_type) ==
    FindPathLoop(start_q, start_r, target_q, target_r, ant_type,
                 <<Hex(start_q, start_r)>>)

find_path(start_q, start_r, target_q, target_r, ant_type) ==
    FindPathLoop(start_q, start_r, target_q, target_r, ant_type, <<>>)

(***************************************************************************)
(* _update_game_state: the derived fields and the visibility set           *)
(***************************************************************************)
Truthy(d) == d # None /\ DOMAIN d # {}

\* a table in which a worker sees its own hex only
VisionRadiusWorkerBlind(ant) ==
    LET ant_type == Get(ant, "type", 0)
    IN CASE ant_type = 0 -> 0
         [] ant_type = 1 -> 1
         [] ant_type = 2 -> 4
         [] OTHER -> 1

_get_ant_vision_radius(ant) ==
    LET ant_type == Get(ant, "type", 0)
    IN CASE ant_type = 0 -> 1
         [] ant_type = 1 -> 1
         [] ant_type = 2 -> 4
         [] OTHER -> 1

\* the hexes _add_visible_hexes(q, r, radius) adds
_add_visible_hexes(q, r, radius) ==
    { <<q + d[1], r + d[2]>> :
        d \in { e \in (-radius..radius) \X (-radius..radius) :
                  /\ e[2] >= Max2(-radius, -e[1] - radius)
                  /\ e[2] <= Min2(radius, -e[1] + radius)
                  /\ Abs(-e[1] - e[2]) <= radius } }

\* ant["q"], ant["r"] raise KeyError for a unit without them
AntWellFormed(ant) == Has(ant, "q") /\ Has(ant, "r")

\* the index of the first unit on which the loop of line 83 raises, 0 if none
FirstBadAnt(as) ==
    IF \A i \in 1..Len(as) : AntWellFormed(as[i])
    THEN 0
    ELSE CHOOSE i \in 1..Len(as) :
            /\ ~AntWellFormed(as[i])
            /\ \A j \in 1..(i - 1) : AntWellFormed(as[j])

\* visible_tiles after the loop of line 83 ran over the first n units
VisionOf(as, n) ==
    UNION { _add_visible_hexes(as[i].q, as[i].r, _get_ant_vision_radius(as[i])) :
              i \in 1..n }

\* the hexes of the lastMove paths (lines 87-90)
LastMoveHexes(as) ==
    UNION { { <<as[i].lastMove[k].q, as[i].lastMove[k].r>> :
                k \in 1..Len(as[i].lastMove) } :
              i \in { j \in 1..Len(as) : Has(as[j], "lastMove") } }

\* _update_game_state applied to the client whose current_state is `state`
\* and whose derived fields are `old`: the fields it leaves, and whether it
\* raised (KeyError) on the way
_update_game_state(state, old) ==
    IF ~Truthy(state)
    THEN [ants |-> old.ants, enemies |-> old.enemies, food |-> old.food,
          home |-> old.home, map_tiles |-> old.map_tiles,
          visible_tiles |-> old.visible_tiles, raised |-> FALSE]
    ELSE LET as == Get(state, "ants", <<>>)
             bad == FirstBadAnt(as)
         IN [ants |-> as,
             enemies |-> Get(state, "enemies", <<>>),
             food |-> Get(state, "food", <<>>),
             home |-> Get(state, "home", <<>>),
             map_tiles |-> Get(state, "map", <<>>),
             visible_tiles |-> IF bad = 0
                               THEN VisionOf(as, Len(as)) \cup LastMoveHexes(as)
                               ELSE VisionOf(as, bad - 1),
             raised |-> bad # 0]

\* the derived fields as they stand
Derived ==
    [ants |-> ants, enemies |-> enemies, food |-> food, home |-> home,
     map_tiles |-> map_tiles, visible_tiles |-> visible_tiles]

is_visible(q, r) == <<q, r>> \in visible_tiles

(***************************************************************************)
(* make_decisions                                                          *)
(***************************************************************************)
\* food_scores.get(type, 0)
FoodValue(type) ==
    CASE type = 3 -> 3
      [] type = 2 -> 2
      [] type = 1 -> 1
      [] OTHER -> 0

\* score > best_score for the quotients n1/d1 and n2/d2 (d1, d2 > 0): the
\* float division rounds monotonically and rounds equal quotients equally,
\* so the floats compare as the fractions do
ScoreGreaterOrEqual(n1, d1, n2, d2) == n1 * d2 >= n2 * d1

ScoreGreater(n1, d1, n2, d2) == n1 * d2 > n2 * d1

RECURSIVE BestFoodLoop(_, _, _, _)
BestFoodLoop(current_q, current_r, i, best) ==
    IF i > Len(food)
    THEN best.food
    ELSE LET f == food[i]
         IN IF f.amount <= 0
            THEN BestFoodLoop(current_q, current_r, i + 1, best)
            ELSE LET distance == hex_distance(current_q, current_r, f.q, f.r)
                     num == FoodValue(f.type)
                     den == distance + 1
                 IN IF ScoreGreater(num, den, best.num, best.den)
                    THEN BestFoodLoop(current_q, current_r, i + 1,
                                      [num |-> num, den |-> den, food |-> f])
                    ELSE BestFoodLoop(current_q, current_r, i + 1, best)

_find_best_food_target(current_q, current_r) ==
    IF food = <<>>
    THEN None
    ELSE BestFoodLoop(current_q, current_r, 1, [num |-> -1, den |-> 1, food |-> None])

\* a search that forgets the radius
EnemiesAnywhere(q, r, radius) == enemies

get_enemies_near(q, r, radius) ==
    SelectSeq(enemies, LAMBDA e: hex_distance(q, r, e.q, e.r) <= radius)

\* min(points, key=distance from (q, r)): the first of the nearest
NearestOf(points, q, r) ==
    LET d(i) == hex_distance(q, r, points[i].q, points[i].r)
        best == CHOOSE i \in 1..Len(points) :
                   /\ \A j \in 1..Len(points) : d(i) <= d(j)
                   /\ \A j \in 1..(i - 1) : d(j) > d(i)
    IN points[best]

\* what a branch of make_decisions settles for a unit: the branch taken, the
\* hex it paths toward and the path find_path returns
Decision(ant, kind, target) ==
    [ant |-> ant.id, kind |-> kind, target |-> target,
     path |-> find_path(ant.q, ant.r, target.q, target.r, Get(ant, "type", 0))]

\* the neighbor _explore paths toward
ExploreTarget(q, r) ==
    LET ns == get_neighbor_hexes(q, r)
        unseen == SelectSeq(ns, LAMBDA n: ~is_visible(n.q, n.r))
    IN IF unseen # <<>> THEN Head(unseen) ELSE ns[1]

_explore(ant) == Decision(ant, "explore", ExploreTarget(ant.q, ant.r))

patrol_points(home_q, home_r) ==
    << Hex(home_q + 2, home_r), Hex(home_q + 1, home_r + 1),
       Hex(home_q - 1, home_r + 1), Hex(home_q - 2, home_r),
       Hex(home_q - 1, home_r - 1), Hex(home_q + 1, home_r - 1) >>

_patrol(ant, home_q, home_r) ==
    Decision(ant, "patrol", NearestOf(patrol_points(home_q, home_r), ant.q, ant.r))

\* a skip that needs two queued hexes
QueuedMoreThanOne(ant) == Has(ant, "move") /\ Len(ant.move) > 1

\* "move" in ant and len(ant["move"]) > 0
HasQueuedMoves(ant) == Has(ant, "move") /\ Len(ant.move) > 0

\* a test that takes any "food" field for a load
HasFoodField(ant) == Has(ant, "food")

\* ant.get("food", {}).get("amount", 0) > 0
CarriesFood(ant) == Get(Get(ant, "food", EmptyDict), "amount", 0) > 0

\* the loop body with the worker's "elif" read as "if": a worker that has a
\* food target and carries food is commanded twice
DecideAntIfIf(ant, home_q, home_r) ==
    LET ant_type == Get(ant, "type", 0)
    IN IF HasQueuedMoves(ant) THEN <<>>
       ELSE CASE ant_type = 0 ->
                   LET best_food == _find_best_food_target(ant.q, ant.r)
                   IN (IF best_food # None
                       THEN <<Decision(ant, "food", Hex(best_food.q, best_food.r))>>
                       ELSE <<>>)
                      \o (IF CarriesFood(ant)
                          THEN <<Decision(ant, "home", Hex(home_q, home_r))>>
                          ELSE IF best_food = None THEN <<_explore(ant)>> ELSE <<>>)
              [] ant_type = 1 ->
                   LET near == get_enemies_near(ant.q, ant.r, 2)
                   IN IF near # <<>>
                      THEN LET closest == NearestOf(near, ant.q, ant.r)
                           IN <<Decision(ant, "enemy", Hex(closest.q, closest.r))>>
                      ELSE <<_patrol(ant, home_q, home_r)>>
              [] ant_type = 2 -> <<_explore(ant)>>
              [] OTHER -> <<>>

\* the loop body with a worker that goes on to the next branch when the path
\* to its food target is empty
DecideAntFallThrough(ant, home_q, home_r) ==
    LET ant_type == Get(ant, "type", 0)
    IN IF HasQueuedMoves(ant) THEN <<>>
       ELSE CASE ant_type = 0 ->
                   LET best_food == _find_best_food_target(ant.q, ant.r)
                       to_food == IF best_food # None
                                  THEN <<Decision(ant, "food", Hex(best_food.q, best_food.r))>>
                                  ELSE <<>>
                   IN IF to_food # <<>> /\ to_food[1].path # <<>>
                      THEN to_food
                      ELSE to_food \o
                           (IF CarriesFood(ant)
                            THEN <<Decision(ant, "home", Hex(home_q, home_r))>>
                            ELSE <<_explore(ant)>>)
              [] ant_type = 1 ->
                   LET near == get_enemies_near(ant.q, ant.r, 2)
                   IN IF near # <<>>
                      THEN LET closest == NearestOf(near, ant.q, ant.r)
                           IN <<Decision(ant, "enemy", Hex(closest.q, closest.r))>>
                      ELSE <<_patrol(ant, home_q, home_r)>>
              [] ant_type = 2 -> <<_explore(ant)>>
              [] OTHER -> <<>>

\* the decisions of one iteration of the loop of line 223: none for a unit
\* that is skipped, one otherwise
DecideAnt(ant, home_q, home_r) ==
    LET ant_type == Get(ant, "type", 0)
    IN IF HasQueuedMoves(ant) THEN <<>>
       ELSE CASE ant_type = 0 ->
                   LET best_food == _find_best_food_target(ant.q, ant.r)
                   IN IF best_food # None
                      THEN <<Decision(ant, "food", Hex(best_food.q, best_food.r))>>
                      ELSE IF CarriesFood(ant)
                      THEN <<Decision(ant, "home", Hex(home_q, home_r))>>
                      ELSE <<_explore(ant)>>
              [] ant_type = 1 ->
                   LET near == get_enemies_near(ant.q, ant.r, 2)
                   IN IF near # <<>>
                      THEN LET closest == NearestOf(near, ant.q, ant.r)
                           IN <<Decision(ant, "enemy", Hex(closest.q, closest.r))>>
                      ELSE <<_patrol(ant, home_q, home_r)>>
              [] ant_type = 2 -> <<_explore(ant)>>
              [] OTHER -> <<>>

RECURSIVE DecideAll(_, _, _)
DecideAll(i, home_q, home_r) ==
    IF i > Len(ants)
    THEN <<>>
    ELSE DecideAnt(ants[i], home_q, home_r) \o DecideAll(i + 1, home_q, home_r)

\* every decision of a pass of make_decisions, in the order of self.ants
Decisions ==
    IF ~Truthy(current_state)
    THEN <<>>
    ELSE LET home_hex == Get(current_state, "spot", EmptyDict)
         IN DecideAll(1, Get(home_hex, "q", 0), Get(home_hex, "r", 0))

\* "if path: moves.append({ant, path})"
CommandsOf(ds) ==
    LET kept == SelectSeq(ds, LAMBDA d: d.path # <<>>)
    IN [i \in 1..Len(kept) |-> [ant |-> kept[i].ant, path |-> kept[i].path]]

make_decisions == CommandsOf(Decisions)

(***************************************************************************)
(* HexUtils (visualizer/utils/hex_utils.py): distance and area lists       *)
(***************************************************************************)
calculate_hex_distance(q1, r1, q2, r2) ==
    (Abs(q1 - q2) + Abs(q1 + r1 - q2 - r2) + Abs(r1 - r2)) \div 2

\* a direction table with a diagonal in place of (1, -1)
NeighborsWithDiagonal(q, r) ==
    LET directions == << <<1, 0>>, <<1, 1>>, <<0, -1>>, <<-1, 0>>, <<-1, 1>>, <<0, 1>> >>
    IN [i \in 1..Len(directions) |-> <<q + directions[i][1], r + directions[i][2]>>]

get_hex_neighbors(q, r) ==
    LET directions == << <<1, 0>>, <<1, -1>>, <<0, -1>>, <<-1, 0>>, <<-1, 1>>, <<0, 1>> >>
    IN [i \in 1..Len(directions) |-> <<q + directions[i][1], r + directions[i][2]>>]

\* list(range(lo, hi)) of Python: lo, lo + 1, ..., hi - 1
RangeList(lo, hi) == [i \in 1..Max2(0, hi - lo) |-> lo + i - 1]

\* the inner loop of the area functions for one dq: the hexes (q + dq, r + dr)
\* for dr in range(max(-radius, -dq - radius), min(radius, -dq + radius) + 1)
AreaRow(q, r, radius, dq) ==
    LET drs == RangeList(Max2(-radius, -dq - radius), Min2(radius, -dq + radius) + 1)
    IN [k \in 1..Len(drs) |-> <<q + dq, r + drs[k]>>]

\* an inner loop over the whole range -radius..radius
SquareRow(q, r, radius, dq) ==
    LET drs == RangeList(-radius, radius + 1)
    IN [k \in 1..Len(drs) |-> <<q + dq, r + drs[k]>>]

\* the outer loop, from dq on: for dq in range(-radius, radius + 1)
RECURSIVE AreaRows(_, _, _, _)
AreaRows(q, r, radius, dq) ==
    IF dq > radius
    THEN <<>>
    ELSE AreaRow(q, r, radius, dq) \o AreaRows(q, r, radius, dq + 1)

RECURSIVE SquareRows(_, _, _, _)
SquareRows(q, r, radius, dq) ==
    IF dq > radius
    THEN <<>>
    ELSE SquareRow(q, r, radius, dq) \o SquareRows(q, r, radius, dq + 1)

\* an enumeration whose inner range is not clamped
HexesInSquare(q, r, radius) == SquareRows(q, r, radius, -radius)

get_hexes_in_radius(q, r, radius) == AreaRows(q, r, radius, -radius)

get_hex_area(center_q, center_r, radius) ==
    SelectSeq(AreaRows(center_q, center_r, radius, -radius),
              LAMBDA h: calculate_hex_distance(center_q, center_r, h[1], h[2]) <= radius)

(***************************************************************************)
(* Maps and construction-time values used by the specifications            *)
(***************************************************************************)
\* the rectangle qlo..qhi x rlo..rhi as a tile list, row by row, all of type
\* 2 (empty) except that the hex `stone` is of type 5 (stone) and the hex
\* `hole` has no tile
RectMap(qlo, qhi, rlo, rhi, stone, hole) ==
    LET width == qhi - qlo + 1
        tileAt(i) == LET q == qlo + ((i - 1) % width)
                         r == rlo + ((i - 1) \div width)
                     IN [q |-> q, r |-> r,
                         type |-> IF Hex(q, r) = stone THEN 5 ELSE 2]
        all == [i \in 1..(width * (rhi - rlo + 1)) |-> tileAt(i)]
    IN SelectSeq(all, LAMBDA t: Hex(t.q, t.r) # hole)

\* a hex outside every map of the model
NoHex == Hex(-99, -99)

\* the fields as __init__ leaves them (lines 15-24)
ConstructedClient ==
    /\ current_state = None
    /\ ants = <<>> /\ enemies = <<>> /\ food = <<>> /\ home = <<>>
    /\ map_tiles = <<>>
    /\ visible_tiles = {}
    /\ last_request_time = 0

NoStudy == fp = None /\ path = <<>> /\ hx = None /\ panel = None /\ pending = 0

\* the history before anything has happened
InitHist ==
    [http |-> <<>>, last_call |-> [op |-> "none", outcome |-> "none"],
     ok_cache |-> None, reg_calls |-> 0, reg_ok |-> FALSE, fetched |-> FALSE,
     failed_fetch |-> FALSE, turn |-> <<>>, decided_on |-> None,
     submitted |-> <<>>]

NoRun == api_key = "" /\ hist = InitHist

(***************************************************************************)
(* SpecPath: find_path applied to drawn arguments, maps and placements     *)
(***************************************************************************)
GridHexes == { Hex(q, r) : q \in 0..MaxQ, r \in 0..MaxR }

\* the rows find_path starts from
StartHexes == { h \in GridHexes : h.r \in {0, MaxR} }

\* hexes where an obstacle (stone, missing tile, other unit) may be put
ObstacleHexes == { Hex(0, 1), Hex(1, 2), Hex(0, MaxR - 1), Hex(1, MaxR \div 2) }
BlockerHexes == { Hex(0, 1), Hex(1, MaxR \div 2) }

\* the other friendly unit of a placement: none, of a type, or without a type
Blockers ==
    {<<>>}
    \cup { <<[id |-> "a2", q |-> h.q, r |-> h.r, type |-> t]>> :
              h \in BlockerHexes, t \in 0..2 }
    \cup { <<[id |-> "a2", q |-> h.q, r |-> h.r]>> : h \in BlockerHexes }

\* the enemy of a placement: none, or one on a hex of the grid
EnemyHexes == { Hex(0, 2), Hex(1, MaxR \div 2) }
EnemyPlacements ==
    {<<>>} \cup { <<[q |-> h.q, r |-> h.r, health |-> 10, attack |-> 1]>> : h \in EnemyHexes }

InitPath ==
    /\ \E start \in StartHexes, target \in GridHexes, t \in 0..2 :
         /\ fp = [start_q |-> start.q, start_r |-> start.r,
                  target_q |-> target.q, target_r |-> target.r, ant_type |-> t]
         /\ \E b \in Blockers, o \in ObstacleHexes \cup {NoHex}, k \in {"stone", "hole"} :
              /\ (b # <<>> => o = NoHex /\ k = "stone")
              /\ (b = <<>> => t = 0)
              /\ (o = NoHex => k = "stone")
              /\ map_tiles = RectMap(0, MaxQ, 0, MaxR,
                                     IF k = "stone" THEN o ELSE NoHex,
                                     IF k = "hole" THEN o ELSE NoHex)
              /\ ants = <<[id |-> "a1", q |-> start.q, r |-> start.r, type |-> t]>> \o b
              /\ \E e \in EnemyPlacements :
                   /\ (e # <<>> => o = NoHex)
                   /\ enemies = e
    /\ current_state = None
    /\ food = <<>> /\ home = <<>>
    /\ visible_tiles = {}
    /\ last_request_time = 0
    /\ now = 0
    /\ prog = "find_path"
    /\ pc = "call"
    /\ path = <<>>
    /\ hx = None /\ panel = None /\ pending = 0
    /\ moves = <<>> /\ decisions = <<>>
    /\ NoRun

FindPath ==
    /\ prog = "find_path" /\ pc = "call"
    /\ path' = find_path(fp.start_q, fp.start_r, fp.target_q, fp.target_r, fp.ant_type)
    /\ pc' = "returned"
    /\ UNCHANGED <<clientVars, last_request_time, now, prog, fp, hx, panel, pending, moves, decisions,
                   api_key, hist>>

NextPath == FindPath
SpecPath == InitPath /\ [][NextPath]_vars

(***************************************************************************)
(* SpecDecide: _update_game_state, then make_decisions, on drawn snapshots *)
(***************************************************************************)
\* the "move" field of a unit: absent, empty, a queued path
MoveOptions == { EmptyDict, [move |-> <<>>], [move |-> <<Hex(0, 1)>>] }

\* the "food" field of a unit: absent, nothing carried, something carried
CarryOptions == { EmptyDict, [food |-> [type |-> 1, amount |-> 0]],
                  [food |-> [type |-> 1, amount |-> 2]] }

\* the first unit of a snapshot stands at the origin
FirstAnts ==
    { [id |-> "a1", q |-> 0, r |-> 0, type |-> t] @@ mv @@ cf :
        t \in 0..2, mv \in MoveOptions, cf \in CarryOptions }

\* the food carried is varied for workers with no queued path only
FirstAntDrawn(a) ==
    Has(a, "food") => a.type = 0 /\ ~HasQueuedMoves(a)

\* the other units of a snapshot
OtherAnts ==
    { <<>>,
      <<[id |-> "a2", q |-> 1, r |-> 0, type |-> 0]>>,
      <<[id |-> "a2", q |-> 0, r |-> 1, type |-> 1]>>,
      <<[id |-> "a2", q |-> -1, r |-> 2, type |-> 2,
         lastMove |-> <<Hex(-6, 2), Hex(-5, 2)>>]>> }

FoodItems ==
    { [q |-> 2, r |-> 0, type |-> 3, amount |-> 5],
      [q |-> 1, r |-> 0, type |-> 1, amount |-> 5],
      [q |-> 0, r |-> 1, type |-> 2, amount |-> 5],
      [q |-> 0, r |-> 0, type |-> 1, amount |-> 1],
      [q |-> 0, r |-> -1, type |-> 3, amount |-> 0],
      [q |-> 0, r |-> -1, type |-> 7, amount |-> 5] }

EnemyItems ==
    { [q |-> 0, r |-> 2, health |-> 10, attack |-> 1],
      [q |-> 0, r |-> 3, health |-> 10, attack |-> 1],
      [q |-> 1, r |-> 0, health |-> 10, attack |-> 1],
      [q |-> -2, r |-> 1, health |-> 10, attack |-> 1] }

\* the longest food and enemy lists of a snapshot
MaxFood == 2
MaxEnemies == 2

\* the lists of at most n elements of S
ListsUpTo(S, n) == UNION { [1..k -> S] : k \in 0..n }

\* the known map of a snapshot: the hexes within MapRadius of the origin
\* on each axis
MapRadius == 2

FullMap == RectMap(-MapRadius, MapRadius, -MapRadius, MapRadius, NoHex, NoHex)
StoneMap == RectMap(-MapRadius, MapRadius, -MapRadius, MapRadius, Hex(1, 0), NoHex)

\* the map and the home spot of a snapshot
Settings ==
    { [map |-> FullMap], [map |-> FullMap, spot |-> Hex(-1, 1)], [map |-> StoneMap] }

\* snapshots that vary the food with no enemy in sight, and snapshots that
\* vary the enemies with no food
InitDecide ==
    /\ \E a \in FirstAnts, o \in OtherAnts, s \in Settings :
         /\ FirstAntDrawn(a)
         /\ \/ \E f \in ListsUpTo(FoodItems, MaxFood) :
                 current_state = [ants |-> <<a>> \o o, enemies |-> <<>>, food |-> f,
                                  home |-> <<>>] @@ s
            \/ \E e \in ListsUpTo(EnemyItems, MaxEnemies) :
                 /\ e # <<>>
                 /\ current_state = [ants |-> <<a>> \o o, enemies |-> e, food |-> <<>>,
                                     home |-> <<>>] @@ s
    /\ ants = <<>> /\ enemies = <<>> /\ food = <<>> /\ home = <<>>
    /\ map_tiles = <<>>
    /\ visible_tiles = {}
    /\ last_request_time = 0
    /\ now = 0
    /\ prog = "decide"
    /\ pc = "update"
    /\ moves = <<>> /\ decisions = <<>>
    /\ NoStudy
    /\ NoRun

\* _update_game_state on the snapshot held in current_state
UpdateGameState ==
    /\ prog = "decide" /\ pc = "update"
    /\ LET u == _update_game_state(current_state, Derived)
       IN /\ ants' = u.ants /\ enemies' = u.enemies /\ food' = u.food
          /\ home' = u.home /\ map_tiles' = u.map_tiles
          /\ visible_tiles' = u.visible_tiles
          /\ pc' = IF u.raised THEN "raised" ELSE "decide"
    /\ UNCHANGED <<current_state, last_request_time, now, prog, moves, decisions,
                   studyVars, api_key, hist>>

MakeDecisions ==
    /\ prog = "decide" /\ pc = "decide"
    /\ decisions' = Decisions
    /\ moves' = make_decisions
    /\ pc' = "decided"
    /\ UNCHANGED <<clientVars, last_request_time, now, prog, studyVars, api_key, hist>>

NextDecide == UpdateGameState \/ MakeDecisions
SpecDecide == InitDecide /\ [][NextDecide]_vars

(***************************************************************************)
(* SpecArea: the area enumerations applied to drawn centers and radii      *)
(***************************************************************************)
\* the centers lie within MaxCenter of the origin on each axis, the radii go
\* up to MaxRadius
MaxCenter == 2
MaxRadius == 3

AreaCalls == { "get_hexes_in_radius", "get_hex_area", "_add_visible_hexes" }

InitArea ==
    /\ ConstructedClient
    /\ \E q \in -MaxCenter..MaxCenter, r \in -MaxCenter..MaxCenter, n \in 0..MaxRadius :
         hx = [q |-> q, r |-> r, radius |-> n, done |-> {},
               hexes_in_radius |-> <<>>, hex_area |-> <<>>]
    /\ now = 0
    /\ prog = "area" /\ pc = "call"
    /\ moves = <<>> /\ decisions = <<>>
    /\ fp = None /\ path = <<>> /\ panel = None /\ pending = 0
    /\ NoRun

\* HexUtils.get_hexes_in_radius(q, r, radius)
GetHexesInRadius ==
    /\ prog = "area" /\ "get_hexes_in_radius" \notin hx.done
    /\ hx' = [hx EXCEPT !.hexes_in_radius = get_hexes_in_radius(hx.q, hx.r, hx.radius),
                        !.done = @ \cup {"get_hexes_in_radius"}]
    /\ UNCHANGED <<clientVars, last_request_time, now, prog, pc, moves, decisions,
                   fp, path, panel, pending, api_key, hist>>

\* HexUtils.get_hex_area(q, r, radius)
GetHexArea ==
    /\ prog = "area" /\ "get_hex_area" \notin hx.done
    /\ hx' = [hx EXCEPT !.hex_area = get_hex_area(hx.q, hx.r, hx.radius),
                        !.done = @ \cup {"get_hex_area"}]
    /\ UNCHANGED <<clientVars, last_request_time, now, prog, pc, moves, decisions,
                   fp, path, panel, pending, api_key, hist>>

\* AntProtocolClient._add_visible_hexes(q, r, radius) on the new client
AddVisibleHexes ==
    /\ prog = "area" /\ "_add_visible_hexes" \notin hx.done
    /\ visible_tiles' = visible_tiles \cup _add_visible_hexes(hx.q, hx.r, hx.radius)
    /\ hx' = [hx EXCEPT !.done = @ \cup {"_add_visible_hexes"}]
    /\ UNCHANGED <<current_state, ants, enemies, food, home, map_tiles,
                   last_request_time, now, prog, pc, moves, decisions,
                   fp, path, panel, pending, api_key, hist>>

NextArea == GetHexesInRadius \/ GetHexArea \/ AddVisibleHexes
SpecArea == InitArea /\ [][NextArea]_vars

(***************************************************************************)
(* SpecNeighbors: the two neighbor functions applied to drawn hexes        *)
(***************************************************************************)
\* the hexes lie within MaxNeighborCenter of the origin on each axis
MaxNeighborCenter == 4

InitNeighbors ==
    /\ ConstructedClient
    /\ \E q \in -MaxNeighborCenter..MaxNeighborCenter,
          r \in -MaxNeighborCenter..MaxNeighborCenter :
         hx = [q |-> q, r |-> r, done |-> {},
               hex_neighbors |-> <<>>, neighbor_hexes |-> <<>>]
    /\ now = 0
    /\ prog = "neighbors" /\ pc = "call"
    /\ moves = <<>> /\ decisions = <<>>
    /\ fp = None /\ path = <<>> /\ panel = None /\ pending = 0
    /\ NoRun

\* HexUtils.get_hex_neighbors(q, r)
GetHexNeighbors ==
    /\ prog = "neighbors" /\ "get_hex_neighbors" \notin hx.done
    /\ hx' = [hx EXCEPT !.hex_neighbors = get_hex_neighbors(hx.q, hx.r),
                        !.done = @ \cup {"get_hex_neighbors"}]
    /\ UNCHANGED <<clientVars, last_request_time, now, prog, pc, moves, decisions,
                   fp, path, panel, pending, api_key, hist>>

\* AntProtocolClient.get_neighbor_hexes(q, r)
GetNeighborHexes ==
    /\ prog = "neighbors" /\ "get_neighbor_hexes" \notin hx.done
    /\ hx' = [hx EXCEPT !.neighbor_hexes = get_neighbor_hexes(hx.q, hx.r),
                        !.done = @ \cup {"get_neighbor_hexes"}]
    /\ UNCHANGED <<clientVars, last_request_time, now, prog, pc, moves, decisions,
                   fp, path, panel, pending, api_key, hist>>

NextNeighbors == GetHexNeighbors \/ GetNeighborHexes
SpecNeighbors == InitNeighbors /\ [][NextNeighbors]_vars

(***************************************************************************)
(* SpecPanel: recorded playback in the visualizer's control panel          *)
(* (visualizer/ui/control_panel.py, visualizer/core/visualizer.py).        *)
(*                                                                         *)
(* Tk runs one handler at a time, so each handler is one step.  all_states *)
(* is kept by its length, recorded is the number of states the database    *)
(* returns, and pending counts the play_next_frame callbacks that          *)
(* root.after has queued and that have not run yet; the code never calls   *)
(* after_cancel on them.                                                   *)
(***************************************************************************)
\* the database holds up to MaxFrames states, and a handler that would queue
\* a callback beyond MaxPending is not taken
MaxFrames == 5
MaxPending == 3

\* ControlPanel.__init__ and AntVisualizer.__init__
ConstructedPanel(n) ==
    [video_mode |-> FALSE, video_playing |-> FALSE, all_states |-> 0,
     current_state_index |-> 0, play_button |-> "disabled", recorded |-> n]

RECURSIVE toggle_play(_)

\* ControlPanel.play_next_frame()
play_next_frame(s) ==
    IF ~s.panel.video_playing \/ s.panel.all_states = 0
    THEN s
    ELSE IF s.panel.current_state_index < s.panel.all_states - 1
         THEN [panel |-> [s.panel EXCEPT !.current_state_index = @ + 1],
               pending |-> s.pending + 1]
         ELSE toggle_play(s)

\* ControlPanel.toggle_play()
toggle_play(s) ==
    LET flipped == [s EXCEPT !.panel.video_playing = ~@]
    IN  IF flipped.panel.video_playing
        THEN play_next_frame(flipped)
        ELSE flipped

\* ControlPanel.stop_playback()
stop_playback(p) ==
    IF p.video_playing THEN [p EXCEPT !.video_playing = FALSE] ELSE p

\* ControlPanel.enable_video_mode(), after toggle_video_mode loaded the states
enable_video_mode(p) ==
    [p EXCEPT !.play_button = "normal",
              !.all_states = p.recorded,
              !.current_state_index = IF p.recorded > 0 THEN p.recorded - 1 ELSE 0]

\* ControlPanel.disable_video_mode()
disable_video_mode(p) ==
    [stop_playback([p EXCEPT !.play_button = "disabled"]) EXCEPT !.all_states = 0]

\* AntVisualizer.toggle_video_mode()
toggle_video_mode(p) ==
    LET flipped == [p EXCEPT !.video_mode = ~@]
    IN  IF flipped.video_mode
        THEN enable_video_mode(flipped)
        ELSE disable_video_mode(flipped)

\* ControlPanel.on_timeline_change(value)
on_timeline_change(s, index) ==
    IF ~s.panel.video_mode \/ s.panel.all_states = 0
    THEN s
    ELSE IF /\ 0 <= index /\ index < s.panel.all_states
            /\ index # s.panel.current_state_index
         THEN LET moved == [s EXCEPT !.panel.current_state_index = index]
              IN  IF moved.panel.video_playing THEN toggle_play(moved) ELSE moved
         ELSE s

PanelState == [panel |-> panel, pending |-> pending]

PanelStep(s) ==
    /\ s.pending <= MaxPending
    /\ panel' = s.panel
    /\ pending' = s.pending
    /\ UNCHANGED <<clientVars, last_request_time, now, prog, pc, moves, decisions,
                   fp, path, hx, api_key, hist>>

InitPanel ==
    /\ ConstructedClient
    /\ \E n \in 0..MaxFrames : panel = ConstructedPanel(n)
    /\ pending = 0
    /\ now = 0
    /\ prog = "panel" /\ pc = "mainloop"
    /\ moves = <<>> /\ decisions = <<>>
    /\ fp = None /\ path = <<>> /\ hx = None
    /\ NoRun

\* a click on the video mode button
ClickVideoMode ==
    /\ prog = "panel"
    /\ PanelStep([PanelState EXCEPT !.panel = toggle_video_mode(panel)])

\* a click on the Play / Pause button, which takes clicks while it is enabled
ClickPlay ==
    /\ prog = "panel" /\ panel.play_button = "normal"
    /\ PanelStep(toggle_play(PanelState))

\* the timeline slider reports a new value
MoveSlider ==
    /\ prog = "panel"
    /\ \E value \in 0..MaxFrames : PanelStep(on_timeline_change(PanelState, value))

\* the main loop runs one queued play_next_frame callback
TimerFires ==
    /\ prog = "panel" /\ pending > 0
    /\ PanelStep(play_next_frame([PanelState EXCEPT !.pending = @ - 1]))

NextPanel == ClickVideoMode \/ ClickPlay \/ MoveSlider \/ TimerFires
SpecPanel == InitPanel /\ [][NextPanel]_vars

(***************************************************************************)
(* Time, the rate limiter and the HTTP calls of the client                 *)
(***************************************************************************)
\* self.request_interval = 0.34 s, a tick being 0.17 s
request_interval == 2
\* time.sleep(1) of main and root.after(1000, ...) of the GUI, in ticks
BackoffTicks == 5
\* arena.get("nextTurnIn", 2.0): the default of 2.0 s, in ticks
DefaultNextTurnIn == 12

\* time.time() at the start of a run is far beyond request_interval
StartTime == request_interval

\* time.sleep(d) called at t returns after at least d ticks
SleepReturns(t, d) == { t + d + lag : lag \in 0..MaxLag }

\* a limiter that only stamps the time
RateLimitNoSleep(t) == {t}

\* _rate_limit called at t: the times at which it may return, which is the
\* time it stores in last_request_time
_rate_limit(t) ==
    LET elapsed == t - last_request_time
    IN IF elapsed < request_interval
       THEN SleepReturns(t, request_interval - elapsed)
       ELSE {t}

\* the cache: current_state and the fields derived from it
Cache == [current_state |-> current_state] @@ Derived

\* the responses of the server, or the failure to get one; a body that is
\* not JSON makes response.json() raise an exception whose class depends on
\* the requests library installed (a RequestException or a plain ValueError)
Failures ==
    { [kind |-> "network", exc |-> "RequestException"],
      [kind |-> "status", exc |-> "RequestException"],
      [kind |-> "json", exc |-> "RequestException"],
      [kind |-> "json", exc |-> "ValueError"] }

RowMap == RectMap(0, 2, 0, 0, NoHex, NoHex)

\* a worker with an apple two hexes away: one command
BodyGather ==
    [turnNo |-> 1, nextTurnIn |-> 2,
     ants |-> <<[id |-> "a1", q |-> 0, r |-> 0, type |-> 0]>>,
     enemies |-> <<>>,
     food |-> <<[q |-> 2, r |-> 0, type |-> 1, amount |-> 5]>>,
     home |-> <<Hex(0, 0)>>, map |-> RowMap, spot |-> Hex(0, 0)]

\* a scout that is already on its way: no command
BodyBusy ==
    [turnNo |-> 2, nextTurnIn |-> 2,
     ants |-> <<[id |-> "a1", q |-> 1, r |-> 0, type |-> 2,
                 move |-> <<Hex(2, 0)>>, lastMove |-> <<Hex(0, 0), Hex(1, 0)>>]>>,
     enemies |-> <<[q |-> 2, r |-> 0, health |-> 10, attack |-> 1]>>,
     map |-> RowMap, spot |-> Hex(0, 0)]

\* a payload whose second unit has no coordinates
BodyBroken ==
    [turnNo |-> 3, nextTurnIn |-> 2,
     ants |-> <<[id |-> "a1", q |-> 2, r |-> 0, type |-> 0],
                [id |-> "a2", type |-> 0]>>,
     food |-> <<[q |-> 1, r |-> 0, type |-> 2, amount |-> 5]>>,
     map |-> RowMap]

ArenaBodies == { BodyGather, BodyBusy, BodyBroken, EmptyDict }

ArenaResponses == Failures \cup { [kind |-> "ok", body |-> b] : b \in ArenaBodies }
RegisterResponses ==
    Failures \cup { [kind |-> "ok", body |-> b] : b \in { [name |-> "player"], EmptyDict } }
LogsResponses == Failures \cup { [kind |-> "ok", body |-> <<>>] }
MoveResponses ==
    Failures \cup { [kind |-> "ok", body |-> [errors |-> e]] : e \in { <<>>, <<"bad path">> } }

\* how a call that does not touch the response body ends
CallOutcome(resp) == IF resp.kind = "ok" THEN "ok" ELSE resp.exc

\* how get_arena ends for a response: normally, or with the exception raised
\* by the request or by _update_game_state
ArenaOutcome(resp) ==
    IF resp.kind # "ok" THEN resp.exc
    ELSE IF _update_game_state(resp.body, Derived).raised THEN "KeyError"
    ELSE "ok"

\* the cache get_arena leaves for a response (lines 46-50): untouched when
\* the request raises, else current_state replaced and _update_game_state run
ArenaCache(resp) ==
    IF resp.kind # "ok" THEN Cache
    ELSE LET u == _update_game_state(resp.body, Derived)
         IN [current_state |-> resp.body, ants |-> u.ants, enemies |-> u.enemies,
             food |-> u.food, home |-> u.home, map_tiles |-> u.map_tiles,
             visible_tiles |-> u.visible_tiles]

\* the outbound request of a client call: _rate_limit returned at t and the
\* request is issued then; its answer, or its failure, comes lat ticks later
Horizon == IF prog = "api" THEN MaxApiTime ELSE MaxTime

Request(t, lat) ==
    /\ t \in _rate_limit(now)
    /\ lat \in 0..MaxLag
    /\ t + lat <= Horizon
    /\ last_request_time' = t
    /\ now' = t + lat

\* the history with a call recorded: the last two outbound requests and the
\* outcome of the last call
Logged(h, op, t, outcome) ==
    [h EXCEPT !.http = IF Len(@) < 2
                       THEN Append(@, [op |-> op, at |-> t])
                       ELSE <<@[2], [op |-> op, at |-> t]>>,
              !.last_call = [op |-> op, outcome |-> outcome]]

\* get_arena answered by resp
get_arena(resp, t, lat) ==
    /\ Request(t, lat)
    /\ LET c == ArenaCache(resp)
       IN /\ current_state' = c.current_state
          /\ ants' = c.ants /\ enemies' = c.enemies /\ food' = c.food
          /\ home' = c.home /\ map_tiles' = c.map_tiles
          /\ visible_tiles' = c.visible_tiles

\* register, get_logs, send_moves: the request and nothing else
register(t, lat) == Request(t, lat) /\ UNCHANGED clientVars
\* a get_logs that keeps its response as get_arena does
GetLogsStoring(t, lat) ==
    /\ Request(t, lat)
    /\ current_state' = [logs |-> <<>>]
    /\ UNCHANGED <<ants, enemies, food, home, map_tiles, visible_tiles>>

get_logs(t, lat) == Request(t, lat) /\ UNCHANGED clientVars
send_moves(t, lat) == Request(t, lat) /\ UNCHANGED clientVars

\* the history after get_arena answered by resp
ArenaLogged(resp, t) ==
    [Logged(hist, "get_arena", t, ArenaOutcome(resp)) EXCEPT
        !.fetched = TRUE,
        !.failed_fetch = @ \/ ArenaOutcome(resp) # "ok",
        !.ok_cache = IF ArenaOutcome(resp) = "ok" THEN ArenaCache(resp) ELSE @]

(***************************************************************************)
(* SpecClient: any sequence of calls on one client                         *)
(***************************************************************************)
InitClient ==
    /\ ConstructedClient
    /\ now = StartTime
    /\ prog = "api" /\ pc = "idle"
    /\ moves = <<>> /\ decisions = <<>>
    /\ NoStudy
    /\ api_key = "key"
    /\ hist = InitHist

ApiRegister ==
    /\ prog = "api"
    /\ \E resp \in RegisterResponses, t \in now..Horizon, lat \in 0..MaxLag :
         /\ register(t, lat)
         /\ hist' = Logged(hist, "register", t, CallOutcome(resp))
    /\ UNCHANGED <<prog, pc, moves, decisions, studyVars, api_key>>

ApiGetArena ==
    /\ prog = "api"
    /\ \E resp \in ArenaResponses, t \in now..Horizon, lat \in 0..MaxLag :
         /\ get_arena(resp, t, lat)
         /\ hist' = Logged(hist, "get_arena", t, ArenaOutcome(resp))
    /\ UNCHANGED <<prog, pc, moves, decisions, studyVars, api_key>>

ApiGetLogs ==
    /\ prog = "api"
    /\ \E resp \in LogsResponses, t \in now..Horizon, lat \in 0..MaxLag :
         /\ get_logs(t, lat)
         /\ hist' = Logged(hist, "get_logs", t, CallOutcome(resp))
    /\ UNCHANGED <<prog, pc, moves, decisions, studyVars, api_key>>

ApiSendMoves ==
    /\ prog = "api"
    /\ \E resp \in MoveResponses, t \in now..Horizon, lat \in 0..MaxLag :
         /\ send_moves(t, lat)
         /\ hist' = Logged(hist, "send_moves", t, CallOutcome(resp))
    /\ UNCHANGED <<prog, pc, moves, decisions, studyVars, api_key>>

\* time passes between two calls
Tick ==
    /\ prog = "api"
    /\ now < Horizon
    /\ now' = now + 1
    /\ UNCHANGED <<clientVars, last_request_time, prog, pc, moves, decisions,
                   studyVars, api_key, hist>>

NextClient == ApiRegister \/ ApiGetArena \/ ApiGetLogs \/ ApiSendMoves \/ Tick
SpecClient == InitClient /\ [][NextClient]_vars

(***************************************************************************)
(* Spec: the two programs, datspulse_client.main and the GameUI of ants.py *)
(*                                                                         *)
(* pc is "start" before registration, then "fetch", "decide", "submit" at  *)
(* the three calls of a turn, "wait" before the next turn, "backoff" after *)
(* a handled failure; "aborted" (main) and "disabled" (GUI) when startup   *)
(* failed, "crashed" when an exception left the loop, "stopped" after a    *)
(* KeyboardInterrupt.  The GUI's refresh_loop is a timer callback that     *)
(* nothing interleaves with; it is followed call by call like main's loop. *)
(***************************************************************************)
Programs == { <<"main", "your-api-key-here">>, <<"gui", "key">>, <<"gui", "">> }

Init ==
    /\ ConstructedClient
    /\ now = StartTime
    /\ \E p \in Programs : prog = p[1] /\ api_key = p[2]
    /\ pc = "start"
    /\ moves = <<>> /\ decisions = <<>>
    /\ NoStudy
    /\ hist = InitHist

\* a startup that goes on to the loop whatever register did
AfterRegisterAlways(program, resp) == "fetch"

\* where startup goes after register: main lets the exception end the
\* program; initialize_game catches it, also refuses an empty registration,
\* and otherwise starts refresh_loop with root.after(1000, ...)
AfterRegister(program, resp) ==
    IF program = "main"
    THEN IF resp.kind = "ok" THEN "fetch" ELSE "aborted"
    ELSE IF resp.kind = "ok" /\ Truthy(resp.body) THEN "backoff" ELSE "disabled"

\* a loop that goes on with the turn after a failed call
AfterFailureGoOn(program, exc) == "decide"

\* where the loop goes when a call of the turn raised exc: main catches
\* RequestException only, refresh_loop catches every Exception
AfterFailure(program, exc) ==
    IF program = "main"
    THEN IF exc = "RequestException" THEN "backoff" ELSE "crashed"
    ELSE "backoff"

\* a loop that sends the batch again when the submit failed or the result
\* carries errors
AfterSubmitRetry(program, resp) ==
    IF resp.kind = "ok" /\ resp.body.errors = <<>> THEN "wait" ELSE "submit"

\* where the loop goes after send_moves: a result, with or without errors, is
\* reported and the turn ends with the wait; a failure is handled as any
\* failure of the turn
AfterSubmit(program, resp) ==
    IF resp.kind = "ok" THEN "wait" ELSE AfterFailure(program, resp.exc)

\* a loop that submits whatever make_decisions returned
AfterDecideAlways(mv) == "submit"

\* "if moves:" after make_decisions
AfterDecide(mv) == IF mv # <<>> THEN "submit" ELSE "wait"

\* the least time to the next turn, in ticks: main sleeps
\* max(0.1, next_turn_in - 0.1) seconds, refresh_loop sets a timer of
\* max(100, int(next_turn_in * 1000 * 0.9)) milliseconds
TurnWait(program) ==
    LET next_turn_in == Get(current_state, "nextTurnIn", DefaultNextTurnIn)
    IN IF program = "main"
       THEN Max2(0, next_turn_in - 1)
       ELSE (9 * next_turn_in) \div 10

\* how make_decisions ends: line 225 raises on a unit without coordinates
DecideOutcome ==
    IF Truthy(current_state) /\ FirstBadAnt(ants) # 0 THEN "KeyError" ELSE "ok"

\* main: client.register() (lines 362-366)
MainRegister ==
    /\ prog = "main" /\ pc = "start"
    /\ \E resp \in RegisterResponses, t \in now..Horizon, lat \in 0..MaxLag :
         /\ register(t, lat)
         /\ hist' = [Logged(hist, "register", t, CallOutcome(resp)) EXCEPT
                        !.reg_calls = @ + 1,
                        !.reg_ok = (resp.kind = "ok")]
         /\ pc' = AfterRegister(prog, resp)
    /\ UNCHANGED <<prog, moves, decisions, studyVars, api_key>>

\* GameUI.initialize_game (ants.py lines 94-127)
InitializeGame ==
    /\ prog = "gui" /\ pc = "start"
    /\ \/ /\ api_key = ""
          /\ pc' = "disabled"
          /\ UNCHANGED <<clientVars, last_request_time, now, hist>>
       \/ /\ api_key # ""
          /\ \E resp \in RegisterResponses, t \in now..Horizon, lat \in 0..MaxLag :
               /\ register(t, lat)
               /\ hist' = [Logged(hist, "register", t, CallOutcome(resp)) EXCEPT
                              !.reg_calls = @ + 1,
                              !.reg_ok = (resp.kind = "ok")]
               /\ pc' = AfterRegister(prog, resp)
    /\ UNCHANGED <<prog, moves, decisions, studyVars, api_key>>

\* the get_arena call of a turn
LoopGetArena ==
    /\ prog \in {"main", "gui"} /\ pc = "fetch"
    /\ \E resp \in ArenaResponses, t \in now..Horizon, lat \in 0..MaxLag :
         /\ get_arena(resp, t, lat)
         /\ hist' = [ArenaLogged(resp, t) EXCEPT
                        !.turn = Append(@, IF ArenaOutcome(resp) = "ok"
                                           THEN "fetch_ok" ELSE "fetch_failed")]
         /\ pc' = IF ArenaOutcome(resp) = "ok"
                  THEN "decide"
                  ELSE AfterFailure(prog, ArenaOutcome(resp))
    /\ UNCHANGED <<prog, moves, decisions, studyVars, api_key>>

\* the make_decisions call of a turn and the "if moves:" after it
LoopMakeDecisions ==
    /\ prog \in {"main", "gui"} /\ pc = "decide"
    /\ IF DecideOutcome = "ok"
       THEN /\ moves' = make_decisions
            /\ decisions' = Decisions
            /\ pc' = AfterDecide(moves')
       ELSE /\ UNCHANGED <<moves, decisions>>
            /\ pc' = AfterFailure(prog, DecideOutcome)
    /\ hist' = [hist EXCEPT !.turn = Append(@, "decide"),
                            !.decided_on = Cache,
                            !.last_call = [op |-> "make_decisions",
                                           outcome |-> DecideOutcome]]
    /\ UNCHANGED <<clientVars, last_request_time, now, prog, studyVars, api_key>>

\* the send_moves call of a turn
LoopSendMoves ==
    /\ prog \in {"main", "gui"} /\ pc = "submit"
    /\ \E resp \in MoveResponses, t \in now..Horizon, lat \in 0..MaxLag :
         /\ send_moves(t, lat)
         /\ hist' = [Logged(hist, "send_moves", t, CallOutcome(resp)) EXCEPT
                        !.turn = Append(@, "submit"),
                        !.submitted = moves]
         /\ pc' = AfterSubmit(prog, resp)
    /\ UNCHANGED <<prog, moves, decisions, studyVars, api_key>>

\* the end of a turn: the sleep of main, the timer of refresh_loop
LoopWait ==
    /\ prog \in {"main", "gui"} /\ pc = "wait"
    /\ now' \in SleepReturns(now, TurnWait(prog))
    /\ now' <= Horizon
    /\ pc' = "fetch"
    /\ hist' = [hist EXCEPT !.turn = <<>>]
    /\ UNCHANGED <<clientVars, last_request_time, prog, moves, decisions,
                   studyVars, api_key>>

\* after a handled failure, and before the first turn of the GUI: the
\* sleep(1) of main, the root.after(1000, ...) of the GUI
LoopBackoff ==
    /\ prog \in {"main", "gui"} /\ pc = "backoff"
    /\ now' \in SleepReturns(now, BackoffTicks)
    /\ now' <= Horizon
    /\ pc' = "fetch"
    /\ hist' = [hist EXCEPT !.turn = <<>>]
    /\ UNCHANGED <<clientVars, last_request_time, prog, moves, decisions,
                   studyVars, api_key>>

\* KeyboardInterrupt inside the try of main's loop (lines 392-394)
Interrupt ==
    /\ prog = "main" /\ pc \in {"fetch", "decide", "submit", "wait"}
    /\ pc' = "stopped"
    /\ UNCHANGED <<clientVars, last_request_time, now, prog, moves, decisions,
                   studyVars, api_key, hist>>

Next ==
    \/ MainRegister \/ InitializeGame
    \/ LoopGetArena \/ LoopMakeDecisions \/ LoopSendMoves
    \/ LoopWait \/ LoopBackoff
    \/ Interrupt

Spec == Init /\ [][Next]_vars

(***************************************************************************)
(* Properties of find_path (SpecPath)                                      *)
(***************************************************************************)
Returned == prog = "find_path" /\ pc = "returned"
Target == Hex(fp.target_q, fp.target_r)
Start == Hex(fp.start_q, fp.start_r)

\* the hex the walk stood on when it returned
LastHex == IF path = <<>> THEN Start ELSE path[Len(path)]

\* C1: the path returned by find_path has at most 20 elements.
C1_PathAtMost20 ==
    Returned => Len(path) <= 20

\* the known map has a tile at h / a Stone tile at h
TileAt(h) == \E i \in 1..Len(map_tiles) : map_tiles[i].q = h.q /\ map_tiles[i].r = h.r
StoneAt(h) ==
    \E i \in 1..Len(map_tiles) :
        map_tiles[i].q = h.q /\ map_tiles[i].r = h.r /\ map_tiles[i].type = 5

\* a friendly unit whose type is t stands on h
SameTypeUnitAt(h, t) ==
    \E i \in 1..Len(ants) :
        ants[i].q = h.q /\ ants[i].r = h.r /\ Has(ants[i], "type") /\ ants[i].type = t

\* C3: no hex of a path returned by find_path is a Stone tile, a hex without
\* a tile in the known map, or a hex on which a friendly unit of the mover's
\* type stands.
C3_PathAvoidsObstacles ==
    Returned =>
        \A k \in 1..Len(path) :
            /\ TileAt(path[k])
            /\ ~StoneAt(path[k])
            /\ ~SameTypeUnitAt(path[k], fp.ant_type)

\* a walk that made at least one step and then stopped in front of a unit of
\* the mover's type, short of the target
C3_Witness ==
    /\ Returned
    /\ path # <<>>
    /\ LastHex # Target
    /\ LET nxt == NextStep(LastHex.q, LastHex.r, fp.target_q, fp.target_r)
       IN TileAt(nxt) /\ ~StoneAt(nxt) /\ SameTypeUnitAt(nxt, fp.ant_type)

(***************************************************************************)
(* Properties of make_decisions (SpecDecide)                               *)
(***************************************************************************)
Decided == prog = "decide" /\ pc = "decided"

\* C8: a worker's food target chosen by make_decisions lies in the current
\* visibility set.
C8_FoodTargetVisible ==
    Decided =>
        \A k \in 1..Len(decisions) :
            decisions[k].kind = "food" =>
                <<decisions[k].target.q, decisions[k].target.r>> \in visible_tiles

\* the value of a food type: nectar 3, bread 2, apple 1 (any other type 0)
ValueOf(type) == IF type \in {1, 2, 3} THEN type ELSE 0

\* food item i scores at least as much as / more than item j from (q, r),
\* the scores value/(distance+1) compared as fractions
ScoresAtLeast(i, j, q, r) ==
    ValueOf(food[i].type) * (hex_distance(q, r, food[j].q, food[j].r) + 1)
        >= ValueOf(food[j].type) * (hex_distance(q, r, food[i].q, food[i].r) + 1)

Eligible == { i \in 1..Len(food) : food[i].amount > 0 }

\* item i is the first of the best-scoring eligible items from (q, r)
FirstBest(i, q, r) ==
    /\ i \in Eligible
    /\ \A j \in Eligible : ScoresAtLeast(i, j, q, r)
    /\ \A j \in Eligible : j < i => ~ScoresAtLeast(j, i, q, r)

\* C9: from every unit position _find_best_food_target returns the food item
\* with amount > 0 that maximizes value(type)/(distance+1), the first of them
\* in list order on equal scores (None when no item has amount > 0), and a
\* worker's food decision targets that item.
C9_BestFoodTarget ==
    Decided =>
        /\ \A a \in 1..Len(ants) :
             LET res == _find_best_food_target(ants[a].q, ants[a].r)
             IN IF Eligible = {}
                THEN res = None
                ELSE \E i \in Eligible : FirstBest(i, ants[a].q, ants[a].r) /\ res = food[i]
        /\ \A k \in 1..Len(decisions) :
             decisions[k].kind = "food" =>
                \E a \in 1..Len(ants), i \in Eligible :
                    /\ ants[a].id = decisions[k].ant
                    /\ FirstBest(i, ants[a].q, ants[a].r)
                    /\ decisions[k].target = Hex(food[i].q, food[i].r)

\* the worker at (0,0) with nectar at (2,0) listed before bread at (0,1), both
\* scoring 1, and targeting the nectar
C9_Witness ==
    /\ Decided
    /\ Len(food) = 2
    /\ food[1].type = 3 /\ food[1].q = 2 /\ food[1].r = 0
    /\ food[2].type = 2 /\ food[2].q = 0 /\ food[2].r = 1
    /\ \E k \in 1..Len(decisions) :
          /\ decisions[k].ant = "a1" /\ decisions[k].kind = "food"
          /\ decisions[k].target = Hex(2, 0)

\* C10: the list returned by make_decisions holds at most one command per
\* unit id (the unit ids of the snapshot being distinct).
C10_OneCommandPerUnit ==
    Decided =>
        ((\A a, b \in 1..Len(ants) : a # b => ants[a].id # ants[b].id)
            => \A i, j \in 1..Len(moves) : i # j => moves[i].ant # moves[j].ant)

\* a pass that commands two units, one of them a worker that carries food
\* and has a food target
C10_Witness ==
    /\ Decided
    /\ Len(moves) = 2
    /\ \E a \in 1..Len(ants) :
          /\ Get(ants[a], "type", 0) = 0 /\ CarriesFood(ants[a])
          /\ \E k \in 1..Len(moves) : moves[k].ant = ants[a].id
          /\ \E k \in 1..Len(decisions) :
                decisions[k].ant = ants[a].id /\ decisions[k].kind = "food"

\* C11: make_decisions emits no command for a unit whose queued path (the
\* "move" field of the snapshot) is non-empty, whatever its type and
\* surroundings.
C11_QueuedUnitSkipped ==
    Decided =>
        \A a \in 1..Len(ants) :
            (Has(ants[a], "move") /\ ants[a].move # <<>>) =>
                \A k \in 1..Len(moves) : moves[k].ant # ants[a].id

\* a worker with a queued path next to food it would otherwise be sent to,
\* in a pass that commands another unit
C11_Witness ==
    /\ Decided
    /\ Len(ants) = 2
    /\ ants[1].type = 0 /\ Has(ants[1], "move") /\ ants[1].move # <<>>
    /\ \E i \in 1..Len(food) :
          food[i].amount > 0 /\ Hex(food[i].q, food[i].r) = Hex(0, 1)
    /\ \E k \in 1..Len(moves) : moves[k].ant = ants[2].id

\* C12: every command returned by make_decisions carries a non-empty path;
\* a unit whose chosen target yields an empty path gets no command in that
\* pass, and no second target is tried for it (one find_path call per unit).
C12_EmptyPathNoCommand ==
    Decided =>
        /\ \A k \in 1..Len(moves) : moves[k].path # <<>>
        /\ \A a \in 1..Len(ants) :
              Cardinality({ k \in 1..Len(decisions) : decisions[k].ant = ants[a].id }) <= 1
        /\ \A k \in 1..Len(decisions) :
              decisions[k].path = <<>> =>
                  \A j \in 1..Len(moves) : moves[j].ant # decisions[k].ant

\* a worker that carries food and whose food target gives an empty path: it
\* is not sent home and gets no command
C12_Witness ==
    /\ Decided
    /\ Get(ants[1], "type", 0) = 0 /\ CarriesFood(ants[1])
    /\ \E k \in 1..Len(decisions) :
          /\ decisions[k].ant = ants[1].id
          /\ decisions[k].kind = "food"
          /\ decisions[k].path = <<>>
    /\ \A j \in 1..Len(moves) : moves[j].ant # ants[1].id

\* the enemies within hex distance 2 of (q, r), by their place in the list
EnemiesInReach(q, r) ==
    { i \in 1..Len(enemies) : hex_distance(q, r, enemies[i].q, enemies[i].r) <= 2 }

\* the six patrol points around the home hex taken from the snapshot's spot
\* (the origin when the snapshot names none)
PatrolRing ==
    LET spot == IF Has(current_state, "spot") THEN current_state.spot ELSE Hex(0, 0)
    IN << Hex(spot.q + 2, spot.r), Hex(spot.q + 1, spot.r + 1),
          Hex(spot.q - 1, spot.r + 1), Hex(spot.q - 2, spot.r),
          Hex(spot.q - 1, spot.r - 1), Hex(spot.q + 1, spot.r - 1) >>

\* index i is, among the indexes I of the hex list hs, the first of those
\* nearest to (q, r)
FirstNearest(i, I, hs, q, r) ==
    /\ i \in I
    /\ \A j \in I : hex_distance(q, r, hs[i].q, hs[i].r)
                        <= hex_distance(q, r, hs[j].q, hs[j].r)
    /\ \A j \in I : j < i => hex_distance(q, r, hs[j].q, hs[j].r)
                                  > hex_distance(q, r, hs[i].q, hs[i].r)

\* C13: a warrior with no queued path paths toward the nearest enemy among
\* those within hex distance 2 (the first in list order on ties) when there
\* is one, and otherwise toward the nearest of the six patrol points around
\* the home hex (the first in list order on ties).
C13_WarriorTarget ==
    Decided =>
        \A a \in 1..Len(ants) :
            (Get(ants[a], "type", 0) = 1 /\ ~(Has(ants[a], "move") /\ ants[a].move # <<>>)) =>
                \E k \in 1..Len(decisions) :
                    /\ decisions[k].ant = ants[a].id
                    /\ LET q == ants[a].q
                           r == ants[a].r
                           reach == EnemiesInReach(q, r)
                       IN IF reach # {}
                          THEN /\ decisions[k].kind = "enemy"
                               /\ \E i \in reach :
                                     /\ FirstNearest(i, reach, enemies, q, r)
                                     /\ decisions[k].target = Hex(enemies[i].q, enemies[i].r)
                          ELSE /\ decisions[k].kind = "patrol"
                               /\ \E i \in 1..6 :
                                     /\ FirstNearest(i, 1..6, PatrolRing, q, r)
                                     /\ decisions[k].target = PatrolRing[i]

\* the warrior at (0,0) whose only enemy stands at (0,3): it patrols
C13_Witness ==
    /\ Decided
    /\ ants[1].type = 1 /\ ants[1].q = 0 /\ ants[1].r = 0
    /\ ~Has(ants[1], "move")
    /\ Len(enemies) = 1 /\ enemies[1].q = 0 /\ enemies[1].r = 3
    /\ \E k \in 1..Len(decisions) :
          decisions[k].ant = ants[1].id /\ decisions[k].kind = "patrol"

\* the six neighbors of (q, r) in the order (+1,0), (+1,-1), (0,-1), (-1,0),
\* (-1,+1), (0,+1)
HexMathOrder(q, r) ==
    << Hex(q + 1, r), Hex(q + 1, r - 1), Hex(q, r - 1),
       Hex(q - 1, r), Hex(q - 1, r + 1), Hex(q, r + 1) >>

\* C14: the explore sub-policy scans the unit's six neighbors in the order
\* (+1,0), (+1,-1), (0,-1), (-1,0), (-1,+1), (0,+1) and targets the first one
\* that is not in the visibility set, or the first of that order when all six
\* are visible.
C14_ExploreScanOrder ==
    Decided =>
        \A k \in 1..Len(decisions) :
            decisions[k].kind = "explore" =>
                \E a \in 1..Len(ants) :
                    /\ ants[a].id = decisions[k].ant
                    /\ LET order == HexMathOrder(ants[a].q, ants[a].r)
                           unseen == SelectSeq(order,
                                               LAMBDA n: <<n.q, n.r>> \notin visible_tiles)
                       IN /\ get_neighbor_hexes(ants[a].q, ants[a].r) = order
                          /\ decisions[k].target =
                                 IF unseen # <<>> THEN unseen[1] ELSE order[1]

(***************************************************************************)
(* Properties of the client calls (SpecClient)                             *)
(***************************************************************************)
\* the step is a get_arena call that raised
FailedGetArena ==
    /\ hist' # hist
    /\ hist'.last_call.op = "get_arena"
    /\ hist'.last_call.outcome # "ok"

\* C2: a get_arena that fails, by the network, the status or a payload that
\* makes the state update raise, leaves current_state, ants, enemies, food,
\* home, map_tiles and visible_tiles as they were before the call.
C2_FailedFetchKeepsCache ==
    [][FailedGetArena => UNCHANGED clientVars]_vars

\* C5: every call stamps last_request_time with the time its request is
\* issued at, and two consecutive outbound requests are at least
\* request_interval apart.
C5_RequestsSpaced ==
    /\ hist.http # <<>> => last_request_time = hist.http[Len(hist.http)].at
    /\ Len(hist.http) = 2 => hist.http[2].at - hist.http[1].at >= request_interval

\* a get_logs issued exactly request_interval after a get_arena, with no
\* time between them that the clock showed to the caller
C5_Witness ==
    /\ prog = "api"
    /\ Len(hist.http) = 2
    /\ hist.http[1].op = "get_arena" /\ hist.http[2].op = "get_logs"
    /\ hist.http[1].at = StartTime
    /\ hist.http[2].at = StartTime + request_interval
    /\ now = hist.http[2].at

(***************************************************************************)
(* Properties of the two programs (Spec)                                   *)
(***************************************************************************)
\* C4: in both turn loops a failure of get_arena or send_moves never stops
\* the loop.
C4_LoopNeverCrashes == pc # "crashed"

\* the events a turn may show, in order
TurnShapes ==
    { <<>>, <<"fetch_failed">>, <<"fetch_ok">>, <<"fetch_ok", "decide">>,
      <<"fetch_ok", "decide", "submit">> }

InTurn(event) == \E k \in 1..Len(hist.turn) : hist.turn[k] = event

\* C6: within a turn the order is fetch, decide, submit, with no decide or
\* submit after a failed fetch; make_decisions runs on the cache as the most
\* recent successful get_arena left it, and the batch given to send_moves is
\* what make_decisions computes from that cache.
C6_DecideOnLatestFetch ==
    /\ hist.turn \in TurnShapes
    /\ InTurn("decide") => hist.decided_on = hist.ok_cache /\ Cache = hist.ok_cache
    /\ InTurn("submit") => hist.submitted = moves /\ moves = make_decisions

\* a turn that fetched, decided and submitted a command, after a turn whose
\* fetch failed
C6_Witness ==
    /\ hist.failed_fetch
    /\ hist.turn = <<"fetch_ok", "decide", "submit">>
    /\ hist.submitted # <<>>
    /\ hist.decided_on = hist.ok_cache

StartupOver == pc # "start"

\* C7: in each program run register is called exactly once, and no get_arena
\* is issued unless that call returned successfully before it.
C7_RegisterExactlyOnce ==
    /\ StartupOver => hist.reg_calls = 1
    /\ hist.fetched => hist.reg_ok

\* C7, amended: register is called at most once, exactly once when the
\* program has a credential; no get_arena is issued unless that call returned
\* successfully before it, and a failed registration ends startup.
C7_RegisterOnceBeforeFetch ==
    /\ hist.reg_calls <= 1
    /\ (StartupOver /\ api_key # "") => hist.reg_calls = 1
    /\ hist.fetched => hist.reg_calls = 1 /\ hist.reg_ok
    /\ (StartupOver /\ ~hist.reg_ok) => pc \in {"aborted", "disabled"}

\* a get_arena issued after the one successful registration
C7_Witness ==
    /\ hist.fetched
    /\ hist.reg_calls = 1 /\ hist.reg_ok
    /\ hist.last_call.op = "get_arena"

\* the hexes within hex distance n of (q, r)
DiskAround(q, r, n) ==
    { <<x, y>> \in ((q - n)..(q + n)) \X ((r - n)..(r + n)) : hex_distance(q, r, x, y) <= n }

\* the vision radius of a unit type: worker 1, warrior 1, scout 4
RadiusOfType(type) == IF type = 2 THEN 4 ELSE 1

\* what the snapshot held in current_state makes visible: the hexes within
\* the vision radius of each of its units, and the hexes of their lastMove
SnapshotVisible ==
    LET units == Get(current_state, "ants", <<>>)
    IN UNION { DiskAround(units[i].q, units[i].r, RadiusOfType(Get(units[i], "type", 0)))
                  \cup (IF Has(units[i], "lastMove")
                        THEN { <<units[i].lastMove[k].q, units[i].lastMove[k].r>> :
                                  k \in 1..Len(units[i].lastMove) }
                        ELSE {}) :
               i \in 1..Len(units) }

\* the last client call was a get_arena that returned normally
ArenaReturned == hist.last_call = [op |-> "get_arena", outcome |-> "ok"]

\* C15: after every get_arena that returns normally, visible_tiles is exactly
\* the union, over the units of the new snapshot, of the hexes within the
\* unit type's vision radius and of the hexes of the unit's lastMove path; no
\* hex of an earlier snapshot remains.
C15_VisibleFromNewSnapshot == ArenaReturned => visible_tiles = SnapshotVisible

(***************************************************************************)
(* Further properties of find_path (SpecPath)                              *)
(***************************************************************************)
\* C16: along start, p1, ..., pn, where p1..pn is the path returned by
\* find_path, every two consecutive hexes are at hex distance exactly 1.
C16_SingleHexSteps ==
    Returned =>
        \A k \in 1..Len(path) :
            LET prev == IF k = 1 THEN Start ELSE path[k - 1]
            IN hex_distance(prev.q, prev.r, path[k].q, path[k].r) = 1

\* a returned path that moved along both axes
C16_Witness ==
    /\ Returned
    /\ Len(path) >= 3
    /\ \E k \in 1..Len(path) : path[k].q # fp.start_q
    /\ \E k \in 1..Len(path) : path[k].r # fp.start_r

\* the first n steps of the greedy walk from (cq, cr) toward (tq, tr) on a
\* map without obstacles
RECURSIVE GreedyLine(_, _, _, _, _)
GreedyLine(cq, cr, tq, tr, n) ==
    IF n = 0 \/ (cq = tq /\ cr = tr)
    THEN <<>>
    ELSE LET nxt == NextStep(cq, cr, tq, tr)
         IN <<nxt>> \o GreedyLine(nxt.q, nxt.r, tq, tr, n - 1)

\* C17: when the greedy walk from start toward target meets a Stone tile,
\* find_path returns exactly the steps accepted before it: the path ends on
\* the last hex before the Stone tile and is empty when the first step is the
\* Stone tile.
C17_StopsBeforeStone ==
    Returned =>
        LET line == GreedyLine(fp.start_q, fp.start_r, fp.target_q, fp.target_r,
                               StepCeiling + 1)
            stones == { i \in 1..Len(line) : StoneAt(line[i]) }
        IN \A i \in stones :
              (\A j \in 1..(i - 1) :
                    /\ TileAt(line[j]) /\ ~StoneAt(line[j])
                    /\ ~SameTypeUnitAt(line[j], fp.ant_type))
                 => path = SubSeq(line, 1, i - 1)

\* a walk that made at least one step and stopped in front of a Stone tile
C17_Witness ==
    /\ Returned
    /\ path # <<>>
    /\ LastHex # Target
    /\ StoneAt(NextStep(LastHex.q, LastHex.r, fp.target_q, fp.target_r))

\* |dq| + |dr| between start and target
AxisSteps == Abs(fp.target_q - fp.start_q) + Abs(fp.target_r - fp.start_r)

\* no hex between start and target (the start aside) would be rejected: each
\* has a tile that is not Stone and no unit of the mover's type stands on it
ClearBox ==
    \A q \in Min2(fp.start_q, fp.target_q)..Max2(fp.start_q, fp.target_q),
       r \in Min2(fp.start_r, fp.target_r)..Max2(fp.start_r, fp.target_r) :
        \/ Hex(q, r) = Start
        \/ /\ TileAt(Hex(q, r)) /\ ~StoneAt(Hex(q, r))
           /\ ~SameTypeUnitAt(Hex(q, r), fp.ant_type)

\* C18: when no step is rejected and |dq| + |dr| between start and target is
\* at most 20, find_path returns a path that excludes the start, ends on the
\* target and has exactly |dq| + |dr| hexes (none when start equals target).
C18_FullPathToTarget ==
    (Returned /\ ClearBox /\ AxisSteps <= 20) =>
        /\ Len(path) = AxisSteps
        /\ \A k \in 1..Len(path) : path[k] # Start
        /\ path # <<>> => path[Len(path)] = Target
        /\ Start = Target => path = <<>>

\* an unobstructed walk of exactly 20 steps
C18_Witness ==
    /\ Returned /\ ClearBox
    /\ AxisSteps = 20
    /\ Len(path) = 20 /\ path[20] = Target

(***************************************************************************)
(* Further properties of the turn loops (Spec)                             *)
(***************************************************************************)
\* C19: within one turn send_moves is called at most once, and a submit that
\* failed or whose result carries errors is not sent again before the next
\* get_arena: no two consecutive outbound requests are both send_moves.
C19_OneSubmitPerTurn ==
    /\ Cardinality({ k \in 1..Len(hist.turn) : hist.turn[k] = "submit" }) <= 1
    /\ Len(hist.http) = 2 =>
          ~(hist.http[1].op = "send_moves" /\ hist.http[2].op = "send_moves")

\* a turn whose submit failed, the loop now waiting to fetch again
C19_Witness ==
    /\ hist.turn = <<"fetch_ok", "decide", "submit">>
    /\ hist.last_call.op = "send_moves" /\ hist.last_call.outcome # "ok"
    /\ pc = "backoff"

(***************************************************************************)
(* Properties of the area enumerations (SpecArea)                          *)
(***************************************************************************)
\* the list l holds exactly the hexes of the set S, each once
ListsExactly(l, S) ==
    /\ { l[k] : k \in 1..Len(l) } = S
    /\ Len(l) = Cardinality(S)

\* C20: for every center and every radius n >= 0, get_hex_area,
\* get_hexes_in_radius and the hexes added by _add_visible_hexes are exactly
\* the hexes at hex distance <= n from the center, each once: 1 + 3n(n+1)
\* hexes, and the center alone for n = 0.
C20_AreaIsDisk ==
    LET n == hx.radius
        disk == DiskAround(hx.q, hx.r, n)
    IN (prog = "area" /\ hx.done = AreaCalls) =>
          /\ Cardinality(disk) = 1 + 3 * n * (n + 1)
          /\ ListsExactly(hx.hexes_in_radius, disk)
          /\ ListsExactly(hx.hex_area, disk)
          /\ visible_tiles = disk
          /\ n = 0 => /\ hx.hexes_in_radius = << <<hx.q, hx.r>> >>
                      /\ hx.hex_area = << <<hx.q, hx.r>> >>
                      /\ visible_tiles = { <<hx.q, hx.r>> }

\* the three enumerations of radius 2 around a center off the origin: 19
\* hexes each
C20_Witness ==
    /\ prog = "area" /\ hx.done = AreaCalls
    /\ hx.radius = 2 /\ hx.q = 1 /\ hx.r = -2
    /\ Len(hx.hexes_in_radius) = 19 /\ Len(hx.hex_area) = 19
    /\ Cardinality(visible_tiles) = 19

(***************************************************************************)
(* Properties of the neighbor functions (SpecNeighbors)                    *)
(***************************************************************************)
\* C21: for every hex h, HexUtils.get_hex_neighbors and
\* AntProtocolClient.get_neighbor_hexes each return exactly 6 pairwise
\* distinct hexes, each at hex distance 1 from h.
C21_SixDistinctNeighbors ==
    (prog = "neighbors" /\ hx.done = {"get_hex_neighbors", "get_neighbor_hexes"}) =>
        /\ Len(hx.hex_neighbors) = 6
        /\ Len(hx.neighbor_hexes) = 6
        /\ \A i, j \in 1..6 :
              i # j => /\ hx.hex_neighbors[i] # hx.hex_neighbors[j]
                       /\ hx.neighbor_hexes[i] # hx.neighbor_hexes[j]
        /\ \A i \in 1..6 :
              /\ hex_distance(hx.q, hx.r, hx.hex_neighbors[i][1], hx.hex_neighbors[i][2]) = 1
              /\ hex_distance(hx.q, hx.r, hx.neighbor_hexes[i].q, hx.neighbor_hexes[i].r) = 1

\* both functions applied to a hex with negative coordinates
C21_Witness ==
    /\ prog = "neighbors" /\ hx.done = {"get_hex_neighbors", "get_neighbor_hexes"}
    /\ hx.q = -3 /\ hx.r = -1
    /\ hx.hex_neighbors[2] = <<-2, -2>>
    /\ hx.neighbor_hexes[2] = Hex(-4, -1)

(***************************************************************************)
(* Further properties of the client calls (SpecClient)                     *)
(***************************************************************************)
\* the step is a get_logs, register or send_moves call, ended either way
CallOtherThanArena ==
    /\ hist' # hist
    /\ hist'.last_call.op \in {"get_logs", "register", "send_moves"}

\* C22: get_logs, and likewise register and send_moves, leave current_state,
\* ants, enemies, food, home, map_tiles and visible_tiles unchanged, whether
\* the call succeeds or fails.
C22_LogsLeaveCacheAlone ==
    [][CallOtherThanArena => UNCHANGED clientVars]_vars

\* a get_logs that failed on a client holding a snapshot
C22_Witness ==
    /\ prog = "api"
    /\ hist.last_call.op = "get_logs" /\ hist.last_call.outcome # "ok"
    /\ ants # <<>> /\ visible_tiles # {}

\* the list the snapshot held in current_state gives for key (the empty list
\* when the key is absent)
SnapshotList(key) ==
    IF current_state # None /\ key \in DOMAIN current_state
    THEN current_state[key]
    ELSE <<>>

\* C23: after every get_arena that returns normally, ants, enemies, food,
\* home and map_tiles are the lists of the snapshot now held in
\* current_state (empty for an absent key), for every response body, an
\* empty one included.
C23_DerivedFromNewSnapshot ==
    ArenaReturned =>
        /\ ants = SnapshotList("ants")
        /\ enemies = SnapshotList("enemies")
        /\ food = SnapshotList("food")
        /\ home = SnapshotList("home")
        /\ map_tiles = SnapshotList("map")

(***************************************************************************)
(* Properties of the steps of find_path (SpecPath)                         *)
(***************************************************************************)
\* the hex before path[k] on the walk
HexBefore(k) == IF k = 1 THEN Start ELSE path[k - 1]

\* the walk stands at h with deltas of equal size on both axes
TiedAt(h) ==
    /\ Abs(fp.target_q - h.q) = Abs(fp.target_r - h.r)
    /\ fp.target_q # h.q

\* C24: each step of find_path moves one hex along the q axis toward the
\* target when |dq| > |dr| and one hex along the r axis toward the target
\* otherwise (ties go to the r axis), dq and dr being taken from the hex the
\* walk stands on.
C24_LargerDeltaAxis ==
    Returned =>
        \A k \in 1..Len(path) :
            LET h == HexBefore(k)
                dq == fp.target_q - h.q
                dr == fp.target_r - h.r
            IN IF Abs(dq) > Abs(dr)
               THEN /\ path[k].r = h.r
                    /\ path[k].q = IF dq > 0 THEN h.q + 1 ELSE h.q - 1
               ELSE /\ path[k].q = h.q
                    /\ path[k].r = IF dr > 0 THEN h.r + 1 ELSE h.r - 1

\* a walk that met a tie, stepped along r there, and later stepped along q
C24_Witness ==
    /\ Returned
    /\ \E k \in 1..Len(path) : TiedAt(HexBefore(k)) /\ path[k].q = HexBefore(k).q
    /\ \E k \in 1..Len(path) : path[k].q # HexBefore(k).q

\* a reason to reject the hex h for the mover: no tile in the known map, a
\* Stone tile, or a friendly unit of the mover's type standing on it
RejectReason(h) ==
    \/ ~TileAt(h)
    \/ StoneAt(h)
    \/ SameTypeUnitAt(h, fp.ant_type)

EnemyAt(h) == \E i \in 1..Len(enemies) : enemies[i].q = h.q /\ enemies[i].r = h.r

HomeHex == IF Has(current_state, "spot") THEN current_state.spot ELSE Hex(0, 0)

\* the unit carries food: its "food" field has an amount above 0
Loaded(ant) ==
    /\ "food" \in DOMAIN ant
    /\ "amount" \in DOMAIN ant.food
    /\ ant.food.amount > 0

\* C26: a worker with no queued path paths toward its food target when one
\* is available, even if it carries food; with no food target it paths
\* toward the home hex if it carries food (amount > 0) and explores
\* otherwise.
C26_WorkerPolicy ==
    Decided =>
        \A a \in 1..Len(ants) :
            (Get(ants[a], "type", 0) = 0 /\ ~(Has(ants[a], "move") /\ ants[a].move # <<>>)) =>
                \E k \in 1..Len(decisions) :
                    /\ decisions[k].ant = ants[a].id
                    /\ IF Eligible # {}
                       THEN decisions[k].kind = "food"
                       ELSE IF Loaded(ants[a])
                       THEN decisions[k].kind = "home" /\ decisions[k].target = HomeHex
                       ELSE decisions[k].kind = "explore"

\* a loaded worker away from home with nothing to gather: it is sent home
C26_Witness ==
    /\ Decided
    /\ Get(ants[1], "type", 0) = 0 /\ Loaded(ants[1])
    /\ Eligible = {} /\ food # <<>>
    /\ \E k \in 1..Len(moves) : moves[k].ant = ants[1].id
    /\ \E k \in 1..Len(decisions) :
          /\ decisions[k].ant = ants[1].id /\ decisions[k].kind = "home"
          /\ decisions[k].target = Hex(-1, 1)

\* the snapshot has been stored by _update_game_state
Updated == prog = "decide" /\ pc \in {"decide", "decided"}

\* C27: once a non-empty snapshot is stored, the six neighbors of every
\* friendly unit are in visible_tiles, so no explore decision takes the
\* "first neighbor not visible" branch: each targets the hex (q + 1, r) of its
\* unit.
C27_ExploreAlwaysFirstNeighbor ==
    /\ Updated =>
          \A a \in 1..Len(ants) :
              \A d \in { <<1, 0>>, <<1, -1>>, <<0, -1>>, <<-1, 0>>, <<-1, 1>>, <<0, 1>> } :
                  <<ants[a].q + d[1], ants[a].r + d[2]>> \in visible_tiles
    /\ Decided =>
          \A k \in 1..Len(decisions) :
              decisions[k].kind = "explore" =>
                  \E a \in 1..Len(ants) :
                      /\ ants[a].id = decisions[k].ant
                      /\ decisions[k].target = Hex(ants[a].q + 1, ants[a].r)

\* a pass in which a worker with nothing to gather and a scout both explore
C27_Witness ==
    /\ Decided
    /\ \E j, k \in 1..Len(decisions) :
          /\ decisions[j].kind = "explore" /\ decisions[k].kind = "explore"
          /\ \E a, b \in 1..Len(ants) :
                /\ ants[a].id = decisions[j].ant /\ ants[a].type = 0
                /\ ants[b].id = decisions[k].ant /\ ants[b].type = 2

(***************************************************************************)
(* Progress of find_path (SpecPath)                                        *)
(***************************************************************************)
\* |dq| + |dr| from h to the target
AxisStepsFrom(h) == Abs(fp.target_q - h.q) + Abs(fp.target_r - h.r)

\* C28: every accepted step of find_path brings |dq| + |dr| to the target
\* down by exactly 1, so the path never repeats a hex, never returns to the
\* start and has at most |dq| + |dr| hexes, and the walk without obstacles
\* and without ceiling ends on the target after |dq| + |dr| steps.
C28_StepsCloseIn ==
    Returned =>
        /\ \A k \in 1..Len(path) : AxisStepsFrom(path[k]) = AxisStepsFrom(HexBefore(k)) - 1
        /\ \A k \in 1..Len(path) : path[k] # Start
        /\ \A i, j \in 1..Len(path) : i # j => path[i] # path[j]
        /\ Len(path) <= AxisSteps
        /\ Len(GreedyLine(fp.start_q, fp.start_r, fp.target_q, fp.target_r,
                          AxisSteps + 1)) = AxisSteps

\* a walk cut by the step ceiling, more than 20 steps away from its target
C28_Witness ==
    /\ Returned
    /\ AxisSteps > StepCeiling
    /\ Len(path) = StepCeiling + 1
    /\ AxisStepsFrom(LastHex) = AxisSteps - Len(path)

(***************************************************************************)
(* The submit of an empty batch (Spec)                                     *)
(***************************************************************************)
\* the last outbound request of the run so far
LastRequest == hist.http[Len(hist.http)]

\* C29: in both turn loops send_moves is never called with an empty move
\* list: a turn in which make_decisions returns no command issues no move
\* request and takes no rate-limit slot for one.
C29_NoEmptySubmit ==
    /\ pc = "submit" => moves # <<>>
    /\ InTurn("submit") => hist.submitted # <<>>
    /\ (/\ hist.turn = <<"fetch_ok", "decide">>
        /\ hist.last_call = [op |-> "make_decisions", outcome |-> "ok"]
        /\ moves = <<>>)
          => /\ pc \in {"wait", "stopped"}
             /\ LastRequest.op = "get_arena"
             /\ last_request_time = LastRequest.at

\* a turn on a non-empty snapshot whose units are all under way: nothing to
\* send, the loop waits for the next turn
C29_Witness ==
    /\ hist.turn = <<"fetch_ok", "decide">>
    /\ Truthy(current_state) /\ ants # <<>> /\ moves = <<>>
    /\ pc = "wait"

(***************************************************************************)
(* Recorded playback: the queued play_next_frame callbacks                 *)
(***************************************************************************)
\* C30: in the recorded-playback control panel at most one play_next_frame
\* callback is pending at any time, whatever the order of play/pause clicks,
\* slider changes, video-mode toggles and timer firings.
C30_OneCallbackPending == prog = "panel" => pending <= 1

====
